---- MODULE Spec2Model ----
(***************************************************************************)
(* A model of the AudioEngine class of lib/audio/engine.ts: the engine     *)
(* that builds a Web Audio graph from a ModulationSettings snapshot,       *)
(* rebuilds it on structural setting changes and ramps gains otherwise.    *)
(*                                                                         *)
(* Numbers with a fractional part in the program (gains, depths, Hz) are   *)
(* fixed-point integers here, in units of 1/Unit: 0.5 is 50, 440 Hz is     *)
(* 44000.                                                                  *)
(***************************************************************************)
EXTENDS Integers, Sequences, FiniteSets, TLC

VARIABLES
    audioContext,     \* TRUE when this.audioContext is not null
    isPlaying,        \* this.isPlaying
    currentSettings,  \* this.currentSettings (NullSettings when null)
    ref,              \* the node reference fields, by field name
    conns,            \* the connections of the audio graph of the context
    started,          \* source nodes on which start() was called
    stopped,          \* source nodes on which stop() was called
    param,            \* per AudioParam: the event most recently scheduled
    gen,              \* number of graphs built in the current context
    call,             \* the last public call: its name and its argument
    before,           \* isPlaying and currentSettings when that call was made
    log,              \* what the last public call did, in order
    raised,           \* TRUE when the last public call ended by throwing
    steps             \* number of public calls made so far

vars == <<audioContext, isPlaying, currentSettings, ref, conns, started,
          stopped, param, gen, call, before, log, raised, steps>>

----------------------------------------------------------------------------
(* Bounds and fixed-point unit *)

\* public calls made on the engine in one run
MaxSteps == 3

\* fixed-point: 1.0
Unit == 100

\* RAMP_TIME = 0.05 (seconds), in units of 1/Unit
RAMP_TIME == 5

\* the multiplier of setupFrequencyModulation: depth * 10
FModScale == 10

----------------------------------------------------------------------------
(* Settings *)

Fields == {"carrierFrequency", "beatFrequency", "binauralIntensity",
           "aModDepth", "stereoDepth", "fModDepth", "noiseType",
           "noiseLevel", "mixLevel", "volume"}

\* this.currentSettings = null
NullSettings ==
    [carrierFrequency |-> -1, beatFrequency |-> -1, binauralIntensity |-> -1,
     aModDepth |-> -1, stereoDepth |-> -1, fModDepth |-> -1,
     noiseType |-> "null", noiseLevel |-> -1, mixLevel |-> -1, volume |-> -1]

\* a merge that drops a noise level given while no noise colour is selected
MergeDropsIdleNoiseLevel(old, delta) ==
    [f \in Fields |->
        IF f \in DOMAIN delta /\ ~(f = "noiseLevel" /\ old.noiseType = "none")
        THEN delta[f] ELSE old[f]]

\* { ...this.currentSettings, ...settings }
Merge(old, delta) ==
    [f \in Fields |-> IF f \in DOMAIN delta THEN delta[f] ELSE old[f]]

----------------------------------------------------------------------------
(* Nodes and connections *)

Null == <<"null", 0>>

RefNames == {"oscillator", "leftOscillator", "rightOscillator",
             "masterGain", "leftGain", "rightGain", "carrierGain",
             "noiseGain", "aModOscillator", "stereoLFO", "fModOscillator",
             "aModGain", "aModDepthGain", "stereoPanner", "stereoDepthGain",
             "fModDepthGain", "noiseNode", "leftChannelDestination",
             "rightChannelDestination", "mainOutputDestination"}

\* the fields stop() resets (engine.ts 472-490)
TransientRefs == {"oscillator", "leftOscillator", "rightOscillator",
                  "aModOscillator", "aModGain", "aModDepthGain",
                  "stereoPanner", "stereoLFO", "stereoDepthGain",
                  "fModOscillator", "fModDepthGain", "noiseNode"}

DestRefs == {"leftChannelDestination", "rightChannelDestination",
             "mainOutputDestination"}

\* the gains created by initialize()
PersistentRefs == {"masterGain", "carrierGain", "leftGain", "rightGain",
                   "noiseGain"}

\* audioContext.destination
Destination == <<"destination", 0>>

\* a node created by initialize(): one per context
PNode(kind) == <<kind, 0>>

\* a node created while building graph number g of the context
TNode(kind, g) == <<kind, g>>

\* node.connect(dst, 0, input)
Edge(src, dst, input) == [from |-> src, to |-> dst, par |-> "", input |-> input]

\* node.connect(dst.<par>)
PEdge(src, dst, par) == [from |-> src, to |-> dst, par |-> par, input |-> 0]

\* node.disconnect(): removes every outgoing connection of the node
Disconnect(cs, n) == {c \in cs : c.from # n}

\* an AudioParam of a node
P(n, name) == <<n, name>>

\* param.setValueAtTime(v, now)
SetEv(v) == [kind |-> "set", val |-> v, after |-> 0]

\* param.linearRampToValueAtTime(v, now + RAMP_TIME)
RampEv(v) == [kind |-> "ramp", val |-> v, after |-> RAMP_TIME]

\* the entries of the call log
Ev(name) == [ev |-> name, node |-> Null, par |-> "", val |-> 0]
RampLog(n, name, v) == [ev |-> "ramp", node |-> n, par |-> name, val |-> v]

\* the node operation that throws during a call: its name and the kind of
\* the node it is called on; NoFault when every operation succeeds
NoFault == <<"none", "none">>

\* one statement after another: F is applied to the engine that v stands for,
\* unless an exception is on its way out
Then(v, F(_)) ==
    CHOOSE r \in {IF x.raised THEN x ELSE F(x) : x \in {v}} : TRUE

\* the engine object as one value; every method maps such a value to one.
\* currentOutputNode is the local variable of play, Null outside of it.
Engine ==
    [audioContext |-> audioContext, isPlaying |-> isPlaying,
     currentSettings |-> currentSettings, ref |-> ref, conns |-> conns,
     started |-> started, stopped |-> stopped, param |-> param, gen |-> gen,
     currentOutputNode |-> Null, log |-> <<>>, raised |-> FALSE,
     fault |-> NoFault]

\* the engine as its field initialisers leave it (engine.ts 9-67)
Fresh ==
    [audioContext |-> FALSE, isPlaying |-> FALSE,
     currentSettings |-> NullSettings, ref |-> [r \in RefNames |-> Null],
     conns |-> {}, started |-> {}, stopped |-> {}, param |-> <<>>, gen |-> 0,
     currentOutputNode |-> Null, log |-> <<>>, raised |-> FALSE,
     fault |-> NoFault]

\* the call c has run and left the engine as e0
Assign(e0, c) ==
    \E e \in {e0} :
        /\ call' = c
        /\ before' = [isPlaying |-> isPlaying, currentSettings |-> currentSettings,
                      audioContext |-> audioContext]
        /\ audioContext' = e.audioContext
        /\ isPlaying' = e.isPlaying
        /\ currentSettings' = e.currentSettings
        /\ ref' = e.ref
        /\ conns' = e.conns
        /\ started' = e.started
        /\ stopped' = e.stopped
        /\ param' = e.param
        /\ gen' = e.gen
        /\ log' = e.log
        /\ raised' = e.raised
        /\ steps' = steps + 1

Logged(e, entry) == [e EXCEPT !.log = Append(@, entry)]

\* operation op of node n throws: the statements after it do not run
Throw(e, op, n) ==
    [e EXCEPT !.raised = TRUE, !.fault = NoFault,
              !.log = Append(@, [ev |-> "throw", node |-> n, par |-> op,
                                 val |-> 0])]

\* operation op of node n: it throws when it is the faulty one, and leaves
\* the engine as done otherwise
Attempt(e, op, n, done) ==
    IF e.raised THEN e
    ELSE IF e.fault = <<op, n[1]>> THEN Throw(e, op, n)
    ELSE done

SetParam(e, n, name, v) ==
    Attempt(e, "set", n, [e EXCEPT !.param = (P(n, name) :> SetEv(v)) @@ @])

RampParam(e, n, name, v) ==
    Attempt(e, "ramp", n,
            Logged([e EXCEPT !.param = (P(n, name) :> RampEv(v)) @@ @],
                   RampLog(n, name, v)))

Connect(e, c) ==
    Attempt(e, "connect", c.from, [e EXCEPT !.conns = @ \cup {c}])

DisconnectNode(e, n) ==
    Attempt(e, "disconnect", n, [e EXCEPT !.conns = Disconnect(@, n)])

DisconnectRef(e, name) ==
    IF e.ref[name] = Null THEN e ELSE DisconnectNode(e, e.ref[name])

\* a start that the pan LFO never gets
StartNodeButPanLFO(e, n) ==
    IF n[1] = "stereoLFO" THEN e
    ELSE Attempt(e, "start", n, [e EXCEPT !.started = @ \cup {n}])

StartNode(e, n) ==
    Attempt(e, "start", n, [e EXCEPT !.started = @ \cup {n}])

StopRef(e, name) ==
    IF e.ref[name] = Null THEN e
    ELSE Attempt(e, "stop", e.ref[name],
                 [e EXCEPT !.stopped = @ \cup {e.ref[name]}])

SetRef(e, name, n) == IF e.raised THEN e ELSE [e EXCEPT !.ref[name] = n]

\* this.<name> = the node n that a create call of the context returns
Create(e, name, n) == Attempt(e, "create", n, SetRef(e, name, n))

\* currentOutputNode = n
SetOut(e, n) == [e EXCEPT !.currentOutputNode = n]

----------------------------------------------------------------------------
(* initialize() *)

\* an initialize that does not look whether a context is already there
initializeAnew(e, ok) ==
    IF ~ok THEN Logged(e, Ev("error: Failed to initialize Web Audio Context"))
    ELSE [Logged(e, Ev("context")) EXCEPT
             !.audioContext = TRUE,
             !.ref = [@ EXCEPT !["masterGain"] = PNode("masterGain"),
                               !["carrierGain"] = PNode("carrierGain"),
                               !["leftGain"] = PNode("leftGain"),
                               !["rightGain"] = PNode("rightGain"),
                               !["noiseGain"] = PNode("noiseGain")],
             !.conns = @ \cup {Edge(PNode("masterGain"), Destination, 0),
                               Edge(PNode("carrierGain"), PNode("masterGain"), 0),
                               Edge(PNode("noiseGain"), PNode("masterGain"), 0)}]

\* ok: whether new window.AudioContext() succeeds; the log entry "context"
\* stands for the context and the five gains that are created with it
initialize(e, ok) ==
    IF e.audioContext THEN e
    ELSE IF ~ok THEN Logged(e, Ev("error: Failed to initialize Web Audio Context"))
    ELSE LET master  == PNode("masterGain")
             carrier == PNode("carrierGain")
             noise   == PNode("noiseGain")
         IN  [Logged(e, Ev("context")) EXCEPT
                !.audioContext = TRUE,
                !.ref = [@ EXCEPT !["masterGain"] = master,
                                  !["carrierGain"] = carrier,
                                  !["leftGain"] = PNode("leftGain"),
                                  !["rightGain"] = PNode("rightGain"),
                                  !["noiseGain"] = noise],
                !.conns = @ \cup {Edge(master, Destination, 0),
                                  Edge(carrier, master, 0),
                                  Edge(noise, master, 0)}]

----------------------------------------------------------------------------
(* stop() *)

\* a teardown that forgets the frequency-mod LFO
StopOrderWithoutFMod == <<"oscillator", "leftOscillator", "rightOscillator",
                          "aModOscillator", "stereoLFO", "noiseNode">>

StopOrder == <<"oscillator", "leftOscillator", "rightOscillator",
               "aModOscillator", "stereoLFO", "fModOscillator", "noiseNode">>

\* a teardown that also disconnects the carrier-mix gain
DisconnectOrderWithMix == <<"aModDepthGain", "stereoDepthGain", "fModDepthGain",
                            "aModGain", "stereoPanner", "leftGain", "rightGain",
                            "carrierGain", "oscillator", "noiseNode">>

DisconnectOrder == <<"aModDepthGain", "stereoDepthGain", "fModDepthGain",
                     "aModGain", "stereoPanner", "leftGain", "rightGain",
                     "oscillator", "noiseNode">>

RECURSIVE StopAll(_, _)
StopAll(e, i) ==
    IF i > Len(StopOrder) THEN e
    ELSE Then(StopRef(e, StopOrder[i]), LAMBDA e1 : StopAll(e1, i + 1))

RECURSIVE DisconnectAll(_, _)
DisconnectAll(e, i) ==
    IF i > Len(DisconnectOrder) THEN e
    ELSE Then(DisconnectRef(e, DisconnectOrder[i]),
              LAMBDA e1 : DisconnectAll(e1, i + 1))

\* the AudioParams of the nodes the engine still refers to
LiveParams(e) == {p \in DOMAIN e.param : \E r \in RefNames : e.ref[r] = p[1]}

\* the parameters of nodes nothing refers to any more are out of reach
DropDeadParams(e) == [e EXCEPT !.param = [p \in LiveParams(e) |-> @[p]]]

\* a reset that forgets the pan scaling gain and the routing bookkeeping
ResetRefsPartly(e) ==
    Then([e EXCEPT !.isPlaying = FALSE,
                   !.ref = [r \in RefNames |->
                       IF r \in TransientRefs \ {"stereoDepthGain"}
                       THEN Null ELSE @[r]]],
         LAMBDA e1 : DropDeadParams(e1))

\* engine.ts 472-493
ResetRefs(e) ==
    Then([e EXCEPT !.isPlaying = FALSE,
                   !.ref = [r \in RefNames |->
                       IF r \in TransientRefs \cup DestRefs
                       THEN Null ELSE @[r]]],
         LAMBDA e1 : DropDeadParams(e1))

\* try { ... } catch (e) { console.warn(warning, e) }
Catch(v, warning) ==
    CHOOSE r \in {IF x.raised
                  THEN Logged([x EXCEPT !.raised = FALSE], Ev(warning))
                  ELSE x : x \in {v}} : TRUE

\* stop, from the point where the engine is known to be playing
teardown(e0) ==
    Then(Catch(Then(Then(e0,
        LAMBDA e : StopAll(e, 1)),
        LAMBDA e : DisconnectAll(e, 1)),
        "warn: Error during node stopping/disconnecting"),
        LAMBDA e : ResetRefs(e))

\* a stop that lets go of every node reference when nothing plays
stopReleasesAll(e0) ==
    Then(Logged(e0, Ev("stop")),
         LAMBDA e : IF ~e.isPlaying \/ ~e.audioContext
                    THEN [e EXCEPT !.ref = [r \in RefNames |-> Null]]
                    ELSE teardown(e))

stop(e0) ==
    Then(Logged(e0, Ev("stop")),
         LAMBDA e : IF ~e.isPlaying \/ ~e.audioContext THEN e ELSE teardown(e))

----------------------------------------------------------------------------
(* play(settings) and the setup methods *)

\* the graph number that the nodes created now belong to
New(e, kind) == TNode(kind, e.gen)

setupBasicOscillator(e0, frequency, output) ==
    IF ~e0.audioContext THEN e0
    ELSE LET osc == New(e0, "oscillator")
         IN  Then(Then(Then(Then(Then(e0,
                 LAMBDA e : Create(e, "oscillator", osc)),
                 LAMBDA e : SetParam(e, osc, "frequency", frequency)),
                 LAMBDA e : Connect(e, Edge(osc, output, 0))),
                 LAMBDA e : StartNode(e, osc)),
                 LAMBDA e : SetRef(e, "mainOutputDestination", output))

\* a split that is the beat frequency whatever the intensity
frequencyDifferenceUnscaled(beatFreq, intensity) == beatFreq

\* frequencyDifference = beatFreq * intensity
frequencyDifference(beatFreq, intensity) == (beatFreq * intensity) \div Unit

leftFreq(carrierFreq, beatFreq, intensity) ==
    carrierFreq - frequencyDifference(beatFreq, intensity) \div 2

rightFreq(carrierFreq, beatFreq, intensity) ==
    carrierFreq + frequencyDifference(beatFreq, intensity) \div 2

setupBinauralBeats(e0, carrierFreq, beatFreq, intensity, output) ==
    IF ~e0.audioContext \/ e0.ref["leftGain"] = Null
                        \/ e0.ref["rightGain"] = Null THEN e0
    ELSE LET l  == New(e0, "leftOscillator")
             r  == New(e0, "rightOscillator")
             lg == e0.ref["leftGain"]
             rg == e0.ref["rightGain"]
         IN  Then(Then(Then(Then(Then(Then(Then(e0,
                 LAMBDA e : Create(Create(e, "leftOscillator", l),
                                   "rightOscillator", r)),
                 LAMBDA e : SetParam(e, l, "frequency",
                                leftFreq(carrierFreq, beatFreq, intensity))),
                 LAMBDA e : SetParam(e, r, "frequency",
                                rightFreq(carrierFreq, beatFreq, intensity))),
                 LAMBDA e : SetParam(SetParam(e, lg, "gain", Unit),
                                     rg, "gain", Unit)),
                 LAMBDA e : Connect(Connect(Connect(Connect(e,
                                Edge(l, lg, 0)), Edge(r, rg, 0)),
                                Edge(lg, output, 0)), Edge(rg, output, 1))),
                 LAMBDA e : SetRef(SetRef(e, "leftChannelDestination", output),
                                   "rightChannelDestination", output)),
                 LAMBDA e : StartNode(StartNode(e, l), r))

\* a resting gain of one whatever the depth
aModCenterUnity(depth) == Unit

\* 1.0 - depth / 2
aModCenter(depth) == Unit - depth \div 2

\* depth / 2
aModSwing(depth) == depth \div 2

\* the rerouting at the end of setupAmplitudeModulation
routeThroughAModGain(e0) ==
    LET ag == e0.ref["aModGain"]
    IN  IF /\ e0.ref["leftGain"] # Null
           /\ e0.ref["rightGain"] # Null
           /\ e0.ref["leftChannelDestination"] # Null
           /\ e0.ref["rightChannelDestination"] # Null
        THEN Then(Then(Then(Then(e0,
                 LAMBDA e : DisconnectNode(e, e.ref["leftGain"])),
                 LAMBDA e : DisconnectNode(e, e.ref["rightGain"])),
                 LAMBDA e : Connect(Connect(e,
                                Edge(e.ref["leftGain"], ag, 0)),
                                Edge(e.ref["rightGain"], ag, 0))),
                 LAMBDA e : Connect(Connect(e,
                                Edge(ag, e.ref["leftChannelDestination"], 0)),
                                Edge(ag, e.ref["rightChannelDestination"], 1)))
        ELSE IF e0.ref["oscillator"] # Null
                /\ e0.ref["mainOutputDestination"] # Null
        THEN Then(Then(Then(e0,
                 LAMBDA e : DisconnectNode(e, e.ref["oscillator"])),
                 LAMBDA e : Connect(e, Edge(e.ref["oscillator"], ag, 0))),
                 LAMBDA e : Connect(e,
                                Edge(ag, e.ref["mainOutputDestination"], 0)))
        ELSE e0

\* returns the engine; the method's return value is its ref.aModGain
setupAmplitudeModulation(e0, depth, frequency) ==
    LET lfo == New(e0, "aModOscillator")
        ag  == New(e0, "aModGain")
        dg  == New(e0, "aModDepthGain")
    IN  Then(Then(Then(Then(Then(Then(e0,
            LAMBDA e : SetParam(Create(e, "aModOscillator", lfo),
                                lfo, "frequency", frequency)),
            LAMBDA e : SetParam(Create(e, "aModGain", ag),
                                ag, "gain", aModCenter(depth))),
            LAMBDA e : SetParam(Create(e, "aModDepthGain", dg),
                                dg, "gain", aModSwing(depth))),
            LAMBDA e : Connect(Connect(e, Edge(lfo, dg, 0)),
                               PEdge(dg, ag, "gain"))),
            LAMBDA e : StartNode(e, lfo)),
            LAMBDA e : routeThroughAModGain(e))

\* the routing at the end of setupStereoPanning
routeFromPanner(e) ==
    LET pan == e.ref["stereoPanner"]
    IN  IF /\ e.ref["leftChannelDestination"] # Null
           /\ e.ref["rightChannelDestination"] # Null
        THEN Connect(Connect(e,
                 Edge(pan, e.ref["leftChannelDestination"], 0)),
                 Edge(pan, e.ref["rightChannelDestination"], 1))
        ELSE IF e.ref["mainOutputDestination"] # Null
        THEN Connect(e, Edge(pan, e.ref["mainOutputDestination"], 0))
        ELSE e

\* returns the engine; the method's return value is its ref.stereoPanner
setupStereoPanning(e0, depth, frequency, inputNode) ==
    LET pan == New(e0, "stereoPanner")
        lfo == New(e0, "stereoLFO")
        dg  == New(e0, "stereoDepthGain")
    IN  Then(Then(Then(Then(Then(Then(Then(Then(e0,
            LAMBDA e : SetParam(Create(e, "stereoPanner", pan), pan, "pan", 0)),
            LAMBDA e : SetParam(Create(e, "stereoLFO", lfo),
                                lfo, "frequency", frequency)),
            LAMBDA e : SetParam(Create(e, "stereoDepthGain", dg),
                                dg, "gain", depth)),
            LAMBDA e : Connect(Connect(e, Edge(lfo, dg, 0)),
                               PEdge(dg, pan, "pan"))),
            LAMBDA e : StartNode(e, lfo)),
            LAMBDA e : DisconnectNode(e, inputNode)),
            LAMBDA e : Connect(e, Edge(inputNode, pan, 0))),
            LAMBDA e : routeFromPanner(e))

\* depth * 10
fModScaledDepth(depth) == depth * FModScale

\* a frequency modulation that reaches the left oscillator only
modulateLeftOnly(e) ==
    LET dg == e.ref["fModDepthGain"]
    IN  IF e.ref["leftOscillator"] # Null /\ e.ref["rightOscillator"] # Null
        THEN Connect(e, PEdge(dg, e.ref["leftOscillator"], "frequency"))
        ELSE IF e.ref["oscillator"] # Null
        THEN Connect(e, PEdge(dg, e.ref["oscillator"], "frequency"))
        ELSE e

\* the connection of the depth gain to the oscillator frequencies
modulateFrequencies(e) ==
    LET dg == e.ref["fModDepthGain"]
    IN  IF e.ref["leftOscillator"] # Null /\ e.ref["rightOscillator"] # Null
        THEN Connect(Connect(e,
                 PEdge(dg, e.ref["leftOscillator"], "frequency")),
                 PEdge(dg, e.ref["rightOscillator"], "frequency"))
        ELSE IF e.ref["oscillator"] # Null
        THEN Connect(e, PEdge(dg, e.ref["oscillator"], "frequency"))
        ELSE e

setupFrequencyModulation(e0, depth, modFreq) ==
    IF ~e0.audioContext THEN e0
    ELSE LET lfo == New(e0, "fModOscillator")
             dg  == New(e0, "fModDepthGain")
         IN  Then(Then(Then(Then(Then(e0,
                 LAMBDA e : SetParam(Create(e, "fModOscillator", lfo),
                                     lfo, "frequency", modFreq)),
                 LAMBDA e : SetParam(Create(e, "fModDepthGain", dg),
                                     dg, "gain", fModScaledDepth(depth))),
                 LAMBDA e : Connect(e, Edge(lfo, dg, 0))),
                 LAMBDA e : modulateFrequencies(e)),
                 LAMBDA e : StartNode(e, lfo))

setupNoise(e0, type, level) ==
    IF ~e0.audioContext \/ e0.ref["noiseGain"] = Null \/ type = "none" THEN e0
    ELSE LET n == New(e0, "noiseNode")
         IN  Then(Then(Then(Then(Then(e0,
                 LAMBDA e : SetRef(StopRef(e, "noiseNode"), "noiseNode", Null)),
                 LAMBDA e : Create(e, "noiseNode", n)),
                 LAMBDA e : SetParam(e, e.ref["noiseGain"], "gain", level)),
                 LAMBDA e : Connect(e, Edge(n, e.ref["noiseGain"], 0))),
                 LAMBDA e : StartNode(e, n))

\* a play that keeps a snapshot it already has
storeSettingsOnce(e, settings) ==
    IF e.currentSettings = NullSettings
    THEN [e EXCEPT !.currentSettings = settings]
    ELSE e

\* this.currentSettings = { ...settings }: a new object takes the place of
\* the snapshot, logged as "snapshot"
storeSettings(e, settings) ==
    Logged([e EXCEPT !.currentSettings = settings], Ev("snapshot"))

\* this.isPlaying = true; the local currentOutputNode goes out of scope
markPlaying(e) == [e EXCEPT !.isPlaying = TRUE, !.currentOutputNode = Null]

\* the three setValueAtTime calls of play
setLevels(e, settings) ==
    SetParam(SetParam(SetParam(e,
        e.ref["masterGain"], "gain", settings.volume),
        e.ref["carrierGain"], "gain", settings.mixLevel),
        e.ref["noiseGain"], "gain", settings.noiseLevel)

\* createChannelMerger(2): the merger of the graph being built
createMerger(e) ==
    Attempt(e, "create", TNode("merger", e.gen + 1),
            Logged([e EXCEPT !.gen = @ + 1], Ev("build")))

\* the source stage of play
setupSource(e, settings, merger) ==
    IF settings.binauralIntensity > 0
    THEN SetRef(setupBinauralBeats(e, settings.carrierFrequency,
                    settings.beatFrequency, settings.binauralIntensity, merger),
                "mainOutputDestination", Null)
    ELSE SetRef(SetRef(setupBasicOscillator(e, settings.carrierFrequency,
                                            merger),
                "leftChannelDestination", Null),
                "rightChannelDestination", Null)

\* currentOutputNode once the source is set up
sourceOutput(e, merger) ==
    IF e.ref["aModGain"] # Null THEN e.ref["aModGain"]
    ELSE IF e.ref["leftGain"] # Null /\ e.ref["rightGain"] # Null
    THEN merger
    ELSE IF e.ref["oscillator"] # Null THEN e.ref["oscillator"]
    ELSE merger

\* the final connection of currentOutputNode
connectOutput(e, settings, merger) ==
    LET out == e.currentOutputNode
    IN  IF out # merger /\ ~(settings.binauralIntensity > 0)
        THEN IF e.ref["mainOutputDestination"] # Null
             THEN Connect(e, Edge(out, e.ref["mainOutputDestination"], 0))
             ELSE e
        ELSE IF /\ out # e.ref["aModGain"]
                /\ settings.binauralIntensity > 0
                /\ e.ref["aModGain"] # Null
        THEN IF /\ e.ref["leftChannelDestination"] # Null
                /\ e.ref["rightChannelDestination"] # Null
             THEN Connect(Connect(e,
                      Edge(out, e.ref["leftChannelDestination"], 0)),
                      Edge(out, e.ref["rightChannelDestination"], 1))
             ELSE e
        ELSE e

\* play, from the creation of the merger on
wireGraph(e0, settings) ==
    LET merger == New(e0, "merger")
    IN  Then(Then(Then(Then(Then(Then(Then(Then(Then(Then(Then(e0,
            LAMBDA e : Connect(e, Edge(merger, e.ref["carrierGain"], 0))),
            LAMBDA e : setupSource(e, settings, merger)),
            LAMBDA e : SetOut(e, sourceOutput(e, merger))),
            LAMBDA e : IF settings.aModDepth > 0
                       THEN setupAmplitudeModulation(e, settings.aModDepth,
                                                     settings.beatFrequency)
                       ELSE e),
            LAMBDA e : IF settings.aModDepth > 0
                       THEN SetOut(e, e.ref["aModGain"]) ELSE e),
            LAMBDA e : IF settings.stereoDepth > 0
                       THEN setupStereoPanning(e, settings.stereoDepth,
                                settings.beatFrequency, e.currentOutputNode)
                       ELSE e),
            LAMBDA e : IF settings.stereoDepth > 0
                       THEN SetOut(e, e.ref["stereoPanner"]) ELSE e),
            LAMBDA e : connectOutput(e, settings, merger)),
            LAMBDA e : IF settings.fModDepth > 0
                       THEN setupFrequencyModulation(e, settings.fModDepth,
                                                     settings.beatFrequency)
                       ELSE e),
            LAMBDA e : IF settings.noiseType # "none" /\ settings.noiseLevel > 0
                       THEN setupNoise(e, settings.noiseType,
                                       settings.noiseLevel)
                       ELSE e),
            LAMBDA e : markPlaying(e))

\* a play that builds on top of whatever is playing
buildOverPlaying(e) == e

\* stop current playback before starting anew
stopIfPlaying(e) == IF e.isPlaying THEN stop(e) ELSE e

\* play, from the point where the context is known to exist
buildGraph(e0, settings) ==
    Then(Then(Then(Then(Then(e0,
        LAMBDA e : stopIfPlaying(e)),
        LAMBDA e : storeSettings(e, settings)),
        LAMBDA e : setLevels(e, settings)),
        LAMBDA e : createMerger(e)),
        LAMBDA e : wireGraph(e, settings))

\* a play that goes on without looking at what initialize() left behind
playUnguarded(e0, settings, ok) ==
    Then(initialize(Logged(e0, Ev("play")), ok),
         LAMBDA e : buildGraph(e, settings))

play(e0, settings, ok) ==
    Then(initialize(Logged(e0, Ev("play")), ok),
         LAMBDA e :
             IF \/ ~e.audioContext
                \/ e.ref["masterGain"] = Null
                \/ e.ref["carrierGain"] = Null
                \/ e.ref["noiseGain"] = Null
             THEN Logged(e, Ev("error: AudioEngine not properly initialized, cannot play."))
             ELSE buildGraph(e, settings))

----------------------------------------------------------------------------
(* updateSettings(settings) *)

Has(settings, f) == f \in DOMAIN settings

Changed(settings, old, f) == Has(settings, f) /\ settings[f] # old[f]

Toggled(settings, old, f) ==
    Has(settings, f) /\ ((settings[f] = 0) # (old[f] = 0))

\* any change of the amplitude depth restarts, not only one across zero
requiresRestartOnAnyAModChange(settings, oldSettings) ==
    \/ Changed(settings, oldSettings, "carrierFrequency")
    \/ Changed(settings, oldSettings, "beatFrequency")
    \/ Changed(settings, oldSettings, "binauralIntensity")
    \/ Changed(settings, oldSettings, "noiseType")
    \/ Changed(settings, oldSettings, "aModDepth")
    \/ Toggled(settings, oldSettings, "stereoDepth")
    \/ Toggled(settings, oldSettings, "fModDepth")

\* the carrier frequency counts only when it is the one field of the delta
requiresRestartLoneCarrier(settings, oldSettings) ==
    \/ Changed(settings, oldSettings, "carrierFrequency")
          /\ DOMAIN settings = {"carrierFrequency"}
    \/ Changed(settings, oldSettings, "beatFrequency")
    \/ Changed(settings, oldSettings, "binauralIntensity")
    \/ Changed(settings, oldSettings, "noiseType")
    \/ Toggled(settings, oldSettings, "aModDepth")
    \/ Toggled(settings, oldSettings, "stereoDepth")
    \/ Toggled(settings, oldSettings, "fModDepth")

\* a stage switched off keeps running: only switching on restarts
requiresRestartOnEnableOnly(settings, oldSettings) ==
    \/ Changed(settings, oldSettings, "carrierFrequency")
    \/ Changed(settings, oldSettings, "beatFrequency")
    \/ Changed(settings, oldSettings, "binauralIntensity")
    \/ Changed(settings, oldSettings, "noiseType")
    \/ \E f \in {"aModDepth", "stereoDepth", "fModDepth"} :
           Has(settings, f) /\ settings[f] # 0 /\ oldSettings[f] = 0

\* a restart test that takes binauralIntensity for a smooth parameter
requiresRestartIgnoresIntensity(settings, oldSettings) ==
    \/ Changed(settings, oldSettings, "carrierFrequency")
    \/ Changed(settings, oldSettings, "beatFrequency")
    \/ Changed(settings, oldSettings, "noiseType")
    \/ Toggled(settings, oldSettings, "aModDepth")
    \/ Toggled(settings, oldSettings, "stereoDepth")
    \/ Toggled(settings, oldSettings, "fModDepth")

\* a restart test that looks at which fields the delta names, not at whether
\* their values differ
requiresRestartOnPresence(settings, oldSettings) ==
    \/ Has(settings, "carrierFrequency")
    \/ Has(settings, "beatFrequency")
    \/ Has(settings, "binauralIntensity")
    \/ Has(settings, "noiseType")
    \/ Toggled(settings, oldSettings, "aModDepth")
    \/ Toggled(settings, oldSettings, "stereoDepth")
    \/ Toggled(settings, oldSettings, "fModDepth")

requiresRestart(settings, oldSettings) ==
    \/ Changed(settings, oldSettings, "carrierFrequency")
    \/ Changed(settings, oldSettings, "beatFrequency")
    \/ Changed(settings, oldSettings, "binauralIntensity")
    \/ Changed(settings, oldSettings, "noiseType")
    \/ Toggled(settings, oldSettings, "aModDepth")
    \/ Toggled(settings, oldSettings, "stereoDepth")
    \/ Toggled(settings, oldSettings, "fModDepth")

\* a volume ramp scheduled whether or not the value differs
rampVolumeAlways(e, settings, old) ==
    IF Has(settings, "volume") /\ e.ref["masterGain"] # Null
    THEN RampParam(e, e.ref["masterGain"], "gain", settings["volume"])
    ELSE e

rampVolume(e, settings, old) ==
    IF Changed(settings, old, "volume") /\ e.ref["masterGain"] # Null
    THEN RampParam(e, e.ref["masterGain"], "gain", settings["volume"])
    ELSE e

\* a mix-level ramp that ends where it began
rampMixLevelToOld(e, settings, old) ==
    IF Changed(settings, old, "mixLevel") /\ e.ref["carrierGain"] # Null
    THEN RampParam(e, e.ref["carrierGain"], "gain", old.mixLevel)
    ELSE e

rampMixLevel(e, settings, old) ==
    IF Changed(settings, old, "mixLevel") /\ e.ref["carrierGain"] # Null
    THEN RampParam(e, e.ref["carrierGain"], "gain", settings["mixLevel"])
    ELSE e

\* a noise-level ramp scheduled whether or not a noise source exists
rampNoiseLevelAlways(e, settings, old) ==
    IF /\ Changed(settings, old, "noiseLevel")
       /\ e.ref["noiseGain"] # Null
    THEN RampParam(e, e.ref["noiseGain"], "gain", settings["noiseLevel"])
    ELSE e

rampNoiseLevel(e, settings, old) ==
    IF /\ Changed(settings, old, "noiseLevel")
       /\ e.ref["noiseGain"] # Null
       /\ old.noiseType # "none"
    THEN RampParam(e, e.ref["noiseGain"], "gain", settings["noiseLevel"])
    ELSE e

\* an amplitude-depth ramp that takes the scaling gain to the depth itself
rampAModDepthRaw(e, settings, old) ==
    IF /\ Changed(settings, old, "aModDepth")
       /\ e.ref["aModGain"] # Null
       /\ e.ref["aModDepthGain"] # Null
       /\ old.aModDepth > 0
    THEN RampParam(RampParam(e, e.ref["aModGain"], "gain",
                             aModCenter(settings["aModDepth"])),
                   e.ref["aModDepthGain"], "gain", settings["aModDepth"])
    ELSE e

rampAModDepth(e, settings, old) ==
    IF /\ Changed(settings, old, "aModDepth")
       /\ e.ref["aModGain"] # Null
       /\ e.ref["aModDepthGain"] # Null
       /\ old.aModDepth > 0
    THEN RampParam(RampParam(e, e.ref["aModGain"], "gain",
                             aModCenter(settings["aModDepth"])),
                   e.ref["aModDepthGain"], "gain", aModSwing(settings["aModDepth"]))
    ELSE e

rampStereoDepth(e, settings, old) ==
    IF /\ Changed(settings, old, "stereoDepth")
       /\ e.ref["stereoDepthGain"] # Null
       /\ old.stereoDepth > 0
    THEN RampParam(e, e.ref["stereoDepthGain"], "gain", settings["stereoDepth"])
    ELSE e

rampFModDepth(e, settings, old) ==
    IF /\ Changed(settings, old, "fModDepth")
       /\ e.ref["fModDepthGain"] # Null
       /\ old.fModDepth > 0
    THEN RampParam(e, e.ref["fModDepthGain"], "gain",
                   fModScaledDepth(settings["fModDepth"]))
    ELSE e

\* the smooth path
applySmooth(e0, settings, oldSettings) ==
    Then(Then(Then(Then(Then(Then(Then(e0,
        LAMBDA e : rampVolume(e, settings, oldSettings)),
        LAMBDA e : rampMixLevel(e, settings, oldSettings)),
        LAMBDA e : rampNoiseLevel(e, settings, oldSettings)),
        LAMBDA e : rampAModDepth(e, settings, oldSettings)),
        LAMBDA e : rampStereoDepth(e, settings, oldSettings)),
        LAMBDA e : rampFModDepth(e, settings, oldSettings)),
        LAMBDA e : storeSettings(e, Merge(oldSettings, settings)))

\* updateSettings with the return after the restart left out
updateSettingsFallThrough(e0, settings) ==
    Then(Logged(e0, Ev("updateSettings")),
         LAMBDA e :
             IF \/ ~e.isPlaying
                \/ e.currentSettings = NullSettings
                \/ ~e.audioContext
             THEN e
             ELSE IF requiresRestart(settings, e.currentSettings)
             THEN Then(play(e, Merge(e.currentSettings, settings), TRUE),
                       LAMBDA e1 : applySmooth(e1, settings, e.currentSettings))
             ELSE applySmooth(e, settings, e.currentSettings))

\* a restart that tears the graph down and builds nothing in its place
updateSettingsStopOnRestart(e0, settings) ==
    Then(Logged(e0, Ev("updateSettings")),
         LAMBDA e :
             IF \/ ~e.isPlaying
                \/ e.currentSettings = NullSettings
                \/ ~e.audioContext
             THEN e
             ELSE IF requiresRestart(settings, e.currentSettings)
             THEN storeSettings(stop(e), Merge(e.currentSettings, settings))
             ELSE applySmooth(e, settings, e.currentSettings))

\* an update that records the delta even when nothing plays
updateSettingsStoresWhenIdle(e0, settings) ==
    Then(Logged(e0, Ev("updateSettings")),
         LAMBDA e :
             IF e.currentSettings = NullSettings \/ ~e.audioContext
             THEN e
             ELSE IF ~e.isPlaying
             THEN storeSettings(e, Merge(e.currentSettings, settings))
             ELSE IF requiresRestart(settings, e.currentSettings)
             THEN play(e, Merge(e.currentSettings, settings), TRUE)
             ELSE applySmooth(e, settings, e.currentSettings))

updateSettings(e0, settings) ==
    Then(Logged(e0, Ev("updateSettings")),
         LAMBDA e :
             IF \/ ~e.isPlaying
                \/ e.currentSettings = NullSettings
                \/ ~e.audioContext
             THEN e
             ELSE IF requiresRestart(settings, e.currentSettings)
             THEN play(e, Merge(e.currentSettings, settings), TRUE)
             ELSE applySmooth(e, settings, e.currentSettings))

----------------------------------------------------------------------------
(* setVolume(volume) and cleanup() *)

\* this.currentSettings.volume = volume: a field of the snapshot object
\* that is there is overwritten, logged as "write"
writeVolume(e, volume) ==
    Logged([e EXCEPT !.currentSettings.volume = volume], Ev("write"))

\* setVolume on an engine that is not playing
setVolumeIdle(e0, volume) ==
    IF e0.ref["masterGain"] # Null /\ e0.audioContext
    THEN Then(SetParam(e0, e0.ref["masterGain"], "gain", volume),
              LAMBDA e : IF e.currentSettings # NullSettings
                         THEN writeVolume(e, volume)
                         ELSE e)
    ELSE e0

\* a setVolume that always writes the master gain itself
setVolumeDirect(e0, volume) ==
    Then(Logged(e0, Ev("warn: setVolume is deprecated")),
         LAMBDA e : setVolumeIdle(e, volume))

setVolume(e0, volume) ==
    Then(Logged(e0, Ev("warn: setVolume is deprecated")),
         LAMBDA e : IF e.isPlaying /\ e.currentSettings # NullSettings
                    THEN updateSettings(e, [volume |-> volume])
                    ELSE setVolumeIdle(e, volume))

\* a cleanup that closes the context without stopping playback first
cleanupWithoutStop(e0) ==
    Then(Logged(e0, Ev("stop")),
         LAMBDA e : [e EXCEPT !.audioContext = FALSE,
                              !.ref = [r \in RefNames |-> Null],
                              !.currentSettings = NullSettings,
                              !.conns = {},
                              !.started = {},
                              !.stopped = {},
                              !.param = <<>>,
                              !.gen = 0])

\* a cleanup that drops its references but neither closes nor forgets the
\* context
cleanupKeepsContext(e0) ==
    Then(stop(e0),
         LAMBDA e : [e EXCEPT !.ref = [r \in RefNames |-> Null],
                              !.currentSettings = NullSettings])

\* a cleanup that drops the context first and calls stop() afterwards
cleanupBeforeStop(e0) ==
    stop([e0 EXCEPT !.audioContext = FALSE,
                    !.ref = [r \in RefNames |-> Null],
                    !.currentSettings = NullSettings,
                    !.conns = {},
                    !.started = {},
                    !.stopped = {},
                    !.param = <<>>,
                    !.gen = 0])

\* audioContext.close() releases the graph of the context with it
cleanup(e0) ==
    Then(stop(e0),
         LAMBDA e : [e EXCEPT !.audioContext = FALSE,
                              !.ref = [r \in RefNames |-> Null],
                              !.currentSettings = NullSettings,
                              !.conns = {},
                              !.started = {},
                              !.stopped = {},
                              !.param = <<>>,
                              !.gen = 0])

----------------------------------------------------------------------------
(* Inputs *)

Volumes == {50, 80}

\* every combination of source mode and modulation stages, without noise
Shapes ==
    [carrierFrequency : {44000}, beatFrequency : {1000},
     binauralIntensity : {0, 100}, aModDepth : {0, 20},
     stereoDepth : {0, 20}, fModDepth : {0, 20}, noiseType : {"none"},
     noiseLevel : {30}, mixLevel : {50}, volume : {80}]

\* unmodulated sources with a noise colour: a mono tone with audible noise
\* and a half-intensity binaural pair with the noise level at zero
Noisy ==
    {s \in [carrierFrequency : {44000}, beatFrequency : {1000},
            binauralIntensity : {0, 50}, aModDepth : {0},
            stereoDepth : {0}, fModDepth : {0}, noiseType : {"white"},
            noiseLevel : {0, 30}, mixLevel : {50}, volume : {80}] :
        (s.binauralIntensity = 0) = (s.noiseLevel > 0)}

\* the snapshots play is called with
PlayInputs == Shapes \cup Noisy

\* the deltas updateSettings is called with
Deltas ==
    [carrierFrequency : {22000}] \cup [beatFrequency : {400}]
      \cup [binauralIntensity : {0}] \cup [aModDepth : {0, 40}]
      \cup [stereoDepth : {40}] \cup [fModDepth : {40}]
      \cup [noiseType : {"white"}] \cup [noiseLevel : {0, 30}]
      \cup [volume : {50}]
      \cup [carrierFrequency : {22000, 44000}, volume : {50}, mixLevel : {70}]

\* whether new window.AudioContext() succeeds, when it is called at all
ContextOutcomes == IF audioContext THEN {TRUE} ELSE BOOLEAN

Call(op, arg) == [op |-> op, arg |-> arg]

----------------------------------------------------------------------------
(* The engine as a state machine: one action per public method *)

Init ==
    /\ audioContext = Fresh.audioContext
    /\ isPlaying = Fresh.isPlaying
    /\ currentSettings = Fresh.currentSettings
    /\ ref = Fresh.ref
    /\ conns = Fresh.conns
    /\ started = Fresh.started
    /\ stopped = Fresh.stopped
    /\ param = Fresh.param
    /\ gen = Fresh.gen
    /\ call = Call("new", <<>>)
    /\ before = [isPlaying |-> FALSE, currentSettings |-> NullSettings,
                 audioContext |-> FALSE]
    /\ log = <<>>
    /\ raised = FALSE
    /\ steps = 0

Initialize ==
    /\ steps < MaxSteps
    /\ \E ok \in ContextOutcomes :
           Assign(initialize(Engine, ok), Call("initialize", ok))

Play ==
    /\ steps < MaxSteps
    /\ \E s \in PlayInputs, ok \in ContextOutcomes :
           Assign(play(Engine, s, ok), Call("play", s))

Stop ==
    /\ steps < MaxSteps
    /\ Assign(stop(Engine), Call("stop", <<>>))

UpdateSettings ==
    /\ steps < MaxSteps
    /\ \E d \in Deltas : Assign(updateSettings(Engine, d), Call("updateSettings", d))

SetVolume ==
    /\ steps < MaxSteps
    /\ \E v \in Volumes : Assign(setVolume(Engine, v), Call("setVolume", v))

Cleanup ==
    /\ steps < MaxSteps
    /\ Assign(cleanup(Engine), Call("cleanup", <<>>))

Next == Initialize \/ Play \/ Stop \/ UpdateSettings \/ SetVolume \/ Cleanup

Spec == Init /\ [][Next]_vars

----------------------------------------------------------------------------
(* The engine with node operations that may throw *)

\* the engine at the start of a call during which operation f throws
Faulty(f) == [Engine EXCEPT !.fault = f]

\* the stop() and disconnect() calls of stop()
StopFaults ==
    {<<"stop", StopOrder[i]>> : i \in 1..Len(StopOrder)}
      \cup {<<"disconnect", DisconnectOrder[i]>> : i \in 1..Len(DisconnectOrder)}

\* a node creation, the noise factory, a start, a connect and a
\* parameter-scheduling call of play()
PlayFaults ==
    {<<"create", "merger">>, <<"create", "noiseNode">>,
     <<"start", "aModOscillator">>, <<"connect", "leftGain">>,
     <<"set", "masterGain">>}

\* a ramp of the smooth path and a node creation of the restart path
UpdateFaults == {<<"ramp", "masterGain">>, <<"create", "oscillator">>}

\* the stop() and disconnect() calls cleanup() makes through stop()
CleanupFaults == {<<"stop", "oscillator">>, <<"disconnect", "aModGain">>}

\* a plain tone, the two sources with every stage on, and a tone with noise
FaultPlays ==
    {s \in PlayInputs : /\ s.aModDepth = s.stereoDepth
                        /\ s.stereoDepth = s.fModDepth
                        /\ (s.noiseType = "none" \/ s.noiseLevel > 0)}

FaultDeltas == [volume : {50}] \cup [carrierFrequency : {22000}]

PlayFaulty ==
    /\ steps < MaxSteps
    /\ \E s \in FaultPlays, f \in {NoFault} \cup PlayFaults :
           Assign(play(Faulty(f), s, TRUE), Call("play", s))

StopFaulty ==
    /\ steps < MaxSteps
    /\ \E f \in {NoFault} \cup StopFaults :
           Assign(stop(Faulty(f)), Call("stop", <<>>))

UpdateFaulty ==
    /\ steps < MaxSteps
    /\ \E d \in FaultDeltas, f \in {NoFault} \cup UpdateFaults :
           Assign(updateSettings(Faulty(f), d), Call("updateSettings", d))

CleanupFaulty ==
    /\ steps < MaxSteps
    /\ \E f \in {NoFault} \cup CleanupFaults :
           Assign(cleanup(Faulty(f)), Call("cleanup", <<>>))

NextFail == PlayFaulty \/ StopFaulty \/ UpdateFaulty \/ CleanupFaulty

SpecFail == Init /\ [][NextFail]_vars

----------------------------------------------------------------------------
(* The binaural split over a grid of tones: play(s) on an idle engine, s a  *)
(* binaural snapshot without modulation. Frequencies are in 1/Unit Hz and   *)
(* the intensity in 1/Unit; the grid keeps beat * intensity / 2 a whole     *)
(* number of 1/Unit Hz, so the integer arithmetic is that of the code.      *)

ToneCarriers == {10000, 22000, 44000, 52800, 100000}

ToneBeats == {400, 800, 1000, 1200, 4000}

ToneIntensities == {10, 25, 50, 75, 100}

Tones ==
    [carrierFrequency : ToneCarriers, beatFrequency : ToneBeats,
     binauralIntensity : ToneIntensities, aModDepth : {0}, stereoDepth : {0},
     fModDepth : {0}, noiseType : {"none"}, noiseLevel : {30},
     mixLevel : {50}, volume : {80}]

PlayTone ==
    /\ steps < MaxSteps
    /\ ~isPlaying
    /\ \E s \in Tones : Assign(play(Engine, s, TRUE), Call("play", s))

NextTone == PlayTone

SpecTone == Init /\ [][NextTone]_vars

----------------------------------------------------------------------------
(* The amplitude stage over the whole range of depths: play(s) on an idle   *)
(* engine, s a snapshot with amplitude modulation only. Depths are in       *)
(* 1/Unit and even, so that depth / 2 is a whole number of 1/Unit.          *)

AModDepths == {2 * k : k \in 0..(Unit \div 2)}

DepthSnapshots ==
    [carrierFrequency : {44000}, beatFrequency : {400, 1000},
     binauralIntensity : {0, 100}, aModDepth : AModDepths, stereoDepth : {0},
     fModDepth : {0}, noiseType : {"none"}, noiseLevel : {30},
     mixLevel : {50}, volume : {80}]

PlayDepth ==
    /\ steps < MaxSteps
    /\ ~isPlaying
    /\ \E s \in DepthSnapshots : Assign(play(Engine, s, TRUE), Call("play", s))

NextDepth == PlayDepth

SpecDepth == Init /\ [][NextDepth]_vars

----------------------------------------------------------------------------
(* What the last call did, read from its log *)

Count(name) == Cardinality({i \in 1..Len(log) : log[i].ev = name})

Ramps == {i \in 1..Len(log) : log[i].ev = "ramp"}

\* exactly one stop, then exactly one graph construction
OneStopThenRebuild ==
    /\ Count("stop") = 1
    /\ Count("build") = 1
    /\ \A i, j \in 1..Len(log) :
           (log[i].ev = "stop" /\ log[j].ev = "build") => i < j

UpdateWhilePlaying == call.op = "updateSettings" /\ before.isPlaying

\* the delta of the last updateSettings changes field f
DeltaChanges(f) ==
    f \in DOMAIN call.arg /\ call.arg[f] # before.currentSettings[f]

\* the delta of the last updateSettings switches the stage of depth f on or off
DeltaCrossesZero(f) ==
    /\ f \in DOMAIN call.arg
    /\ \/ before.currentSettings[f] = 0 /\ call.arg[f] # 0
       \/ before.currentSettings[f] # 0 /\ call.arg[f] = 0

StructuralTrigger ==
    \/ \E f \in {"carrierFrequency", "beatFrequency", "binauralIntensity",
                 "noiseType"} : DeltaChanges(f)
    \/ \E f \in {"aModDepth", "stereoDepth", "fModDepth"} : DeltaCrossesZero(f)

InRange(s) ==
    /\ s.carrierFrequency > 0
    /\ s.beatFrequency >= 0
    /\ \A f \in {"binauralIntensity", "aModDepth", "stereoDepth", "fModDepth",
                 "noiseLevel", "mixLevel", "volume"} : s[f] \in 0..Unit
    /\ s.noiseType \in {"white", "pink", "brown", "none"}

----------------------------------------------------------------------------
(* Claims *)

\* C1: after play(s) returns on an engine whose audio context could be
\* acquired (fresh, stopped or playing), the engine is playing and
\* currentSettings equals s field by field.
C1_PlayEndsPlayingWithSettings ==
    (call.op = "play" /\ audioContext /\ InRange(call.arg)) =>
        /\ isPlaying
        /\ \A f \in Fields : currentSettings[f] = call.arg[f]

\* a play on an engine that was playing other settings
C1_Witness ==
    /\ call.op = "play"
    /\ before.isPlaying
    /\ before.currentSettings # call.arg
    /\ isPlaying
    /\ currentSettings = call.arg

\* C2: while playing, updateSettings(delta) stops and rebuilds with the
\* merged snapshot exactly when delta changes carrierFrequency,
\* beatFrequency, binauralIntensity or noiseType, or moves a depth across
\* zero; for every other delta neither stop nor play is invoked.
C2_RebuildIffStructural ==
    UpdateWhilePlaying =>
        IF StructuralTrigger
        THEN OneStopThenRebuild /\ Count("play") = 1
        ELSE Count("stop") = 0 /\ Count("play") = 0 /\ Count("build") = 0

\* a depth moved between two nonzero values: no rebuild
C2_Witness ==
    /\ UpdateWhilePlaying
    /\ DeltaChanges("aModDepth")
    /\ ~StructuralTrigger
    /\ Count("build") = 0

\* C3 as stated: a delta that contains carrierFrequency always triggers
\* exactly one stop-then-rebuild cycle.
C3_Original ==
    (UpdateWhilePlaying /\ "carrierFrequency" \in DOMAIN call.arg) =>
        OneStopThenRebuild

\* C3 as amended: a delta whose carrierFrequency differs from the current
\* one triggers exactly one stop-then-rebuild cycle, whatever other fields
\* the delta carries; with an equal carrierFrequency and no other trigger
\* nothing is stopped or rebuilt.
C3_CarrierChangeRebuildsOnce ==
    (UpdateWhilePlaying /\ "carrierFrequency" \in DOMAIN call.arg) =>
        IF DeltaChanges("carrierFrequency") THEN OneStopThenRebuild
        ELSE StructuralTrigger \/ (Count("stop") = 0 /\ Count("build") = 0)

\* a changed carrier frequency in a delta that carries other fields too
C3_Witness ==
    /\ UpdateWhilePlaying
    /\ DeltaChanges("carrierFrequency")
    /\ DOMAIN call.arg # {"carrierFrequency"}
    /\ OneStopThenRebuild

\* C4 as stated: updateSettings({volume: v}) on a playing engine schedules
\* exactly one ramp, on the master gain to v, and calls neither stop nor play.
C4_Original ==
    (UpdateWhilePlaying /\ DOMAIN call.arg = {"volume"}) =>
        /\ Cardinality(Ramps) = 1
        /\ \A i \in Ramps : /\ log[i].node = ref["masterGain"]
                            /\ log[i].par = "gain"
                            /\ log[i].val = call.arg.volume
        /\ Count("stop") = 0 /\ Count("play") = 0

\* C4 as amended: updateSettings({volume: v}) on a playing engine calls
\* neither stop nor play; it schedules exactly one ramp, on the master gain
\* to v, when v differs from the current volume and no ramp when v equals it.
C4_VolumeRampsOnChange ==
    (UpdateWhilePlaying /\ DOMAIN call.arg = {"volume"}) =>
        /\ Count("stop") = 0 /\ Count("play") = 0
        /\ IF DeltaChanges("volume")
           THEN /\ Cardinality(Ramps) = 1
                /\ \A i \in Ramps : /\ log[i].node = ref["masterGain"]
                                    /\ log[i].par = "gain"
                                    /\ log[i].val = call.arg.volume
                /\ param[P(ref["masterGain"], "gain")] = RampEv(call.arg.volume)
           ELSE Ramps = {}

\* a new volume given to a playing engine
C4_Witness ==
    /\ UpdateWhilePlaying
    /\ DOMAIN call.arg = {"volume"}
    /\ DeltaChanges("volume")
    /\ Cardinality(Ramps) = 1

AModStage == {"aModOscillator", "aModGain", "aModDepthGain"}
PanStage == {"stereoLFO", "stereoDepthGain", "stereoPanner"}
FModStage == {"fModOscillator", "fModDepthGain"}

\* the nodes of a stage exist exactly when its depth is positive
StageMatches(stage, depth) ==
    IF depth > 0 THEN \A r \in stage : ref[r] # Null
    ELSE \A r \in stage : ref[r] = Null

\* C5: while the engine is playing, the amplitude stage nodes exist iff
\* currentSettings.aModDepth > 0, the pan stage nodes iff stereoDepth > 0 and
\* the frequency-mod stage nodes iff fModDepth > 0.
C5_StagesMatchDepths ==
    isPlaying =>
        /\ StageMatches(AModStage, currentSettings.aModDepth)
        /\ StageMatches(PanStage, currentSettings.stereoDepth)
        /\ StageMatches(FModStage, currentSettings.fModDepth)

\* an update switched the amplitude stage off while the pan stage stays
C5_Witness ==
    /\ UpdateWhilePlaying
    /\ isPlaying
    /\ before.currentSettings.aModDepth > 0
    /\ currentSettings.aModDepth = 0
    /\ currentSettings.stereoDepth > 0
    /\ ref["aModGain"] = Null
    /\ ref["stereoPanner"] # Null

\* C6: after stop() on a playing engine every transient node reference and
\* the three routing-destination references are null and isPlaying is false.
C6_StopNullsTransients ==
    (call.op = "stop" /\ before.isPlaying) =>
        /\ \A r \in {"oscillator", "leftOscillator", "rightOscillator",
                     "aModOscillator", "stereoLFO", "fModOscillator",
                     "aModGain", "aModDepthGain", "stereoPanner",
                     "stereoDepthGain", "fModDepthGain", "noiseNode",
                     "leftChannelDestination", "rightChannelDestination",
                     "mainOutputDestination"} : ref[r] = Null
        /\ ~isPlaying

\* a stop of a binaural graph with all three stages
C6_Witness ==
    /\ call.op = "stop"
    /\ before.isPlaying
    /\ currentSettings.binauralIntensity > 0
    /\ currentSettings.aModDepth > 0
    /\ currentSettings.stereoDepth > 0
    /\ currentSettings.fModDepth > 0
    /\ ref["stereoDepthGain"] = Null

\* a node created by play, not by initialize
PlayCreated(n) == n[2] > 0

\* C7: after stop() returns, no connection has a node created by a
\* preceding play as an endpoint.
C7_NoConnectionSurvivesStop ==
    (call.op = "stop" /\ before.isPlaying) =>
        \A c \in conns : ~PlayCreated(c.from) /\ ~PlayCreated(c.to)

\* the signal connections: those into a node, not into an AudioParam
Signal == {c \in conns : c.par = ""}

RECURSIVE ReachFrom(_, _)
\* the nodes a signal can reach from the nodes of seen, those included
ReachFrom(seen, edges) ==
    LET more == {c.to : c \in {d \in edges : d.from \in seen}} \ seen
    IN  IF more = {} THEN seen ELSE ReachFrom(seen \cup more, edges)

\* the nodes a signal from n reaches in one connection or more
Downstream(n, edges) ==
    ReachFrom({c.to : c \in {d \in edges : d.from = n}}, edges)

Acyclic(edges) == \A c \in edges : c.from \notin Downstream(c.from, edges)

\* C8: the signal connections that play(s) leaves in place form an acyclic
\* graph, for every source mode and every combination of stages.
C8_PlayGraphAcyclic ==
    (call.op = "play" /\ isPlaying) => Acyclic(Signal)

\* C9: after updateSettings(delta) on a playing engine, on either path,
\* every field present in delta has delta's value in currentSettings and
\* every other field keeps its previous value.
C9_SettingsMerged ==
    UpdateWhilePlaying =>
        \A f \in Fields :
            currentSettings[f] = IF f \in DOMAIN call.arg THEN call.arg[f]
                                 ELSE before.currentSettings[f]

\* a noise level recorded although no noise colour is selected
C9_Witness ==
    /\ UpdateWhilePlaying
    /\ before.currentSettings.noiseType = "none"
    /\ DeltaChanges("noiseLevel")
    /\ currentSettings.noiseLevel = call.arg.noiseLevel
    /\ Ramps = {}

\* C10: a delta with a structural trigger and changed smooth-eligible
\* fields schedules no ramp; the rebuild sets the master, carrier-mix and
\* noise gains immediately to the merged values.
C10_NoRampOnStructural ==
    (UpdateWhilePlaying /\ StructuralTrigger) =>
        /\ Ramps = {}
        /\ param[P(ref["masterGain"], "gain")] = SetEv(currentSettings.volume)
        /\ param[P(ref["carrierGain"], "gain")] = SetEv(currentSettings.mixLevel)
        /\ param[P(ref["noiseGain"], "gain")] = SetEv(currentSettings.noiseLevel)

\* a changed carrier frequency together with a new volume and mix level
C10_Witness ==
    /\ UpdateWhilePlaying
    /\ DeltaChanges("carrierFrequency")
    /\ DeltaChanges("volume")
    /\ DeltaChanges("mixLevel")
    /\ OneStopThenRebuild
    /\ Ramps = {}

\* C11: updateSettings never changes whether the engine is playing: playing
\* before the call means playing after it, also when the delta forces a
\* rebuild, and not playing before means not playing after.
C11_UpdateKeepsPlayingState ==
    call.op = "updateSettings" => (isPlaying = before.isPlaying /\ ~raised)

\* an update that rebuilt the graph and left the engine playing
C11_Witness ==
    /\ UpdateWhilePlaying
    /\ StructuralTrigger
    /\ Count("build") = 1
    /\ isPlaying

\* the nodes on which an operation threw during the last call
Thrown == {log[i].node : i \in {j \in 1..Len(log) : log[j].ev = "throw"}}

\* the nodes of the graph built last
Current(nodes) == {n \in nodes : n[2] = gen}

\* the kinds of the nodes of a graph that stop() disconnects
Released == {"aModDepthGain", "stereoDepthGain", "fModDepthGain", "aModGain",
             "stereoPanner", "oscillator", "noiseNode"}

\* C12: if stopping or disconnecting one node fails during stop(), stop()
\* does not raise and every other started source of the graph is still
\* stopped and every other node that stop() disconnects is still
\* disconnected.
C12_StopToleratesOneBadNode ==
    (call.op = "stop" /\ before.isPlaying) =>
        /\ ~raised
        /\ \A n \in Current(started) \ Thrown : n \in stopped
        /\ \A c \in conns :
               ~(c.from[1] \in Released /\ c.from[2] = gen /\ c.from \notin Thrown)

\* C14: no exception leaves play, stop, updateSettings or cleanup, whatever
\* node operation throws inside them.
C14_NoExceptionLeaves ==
    call.op \in {"play", "stop", "updateSettings", "cleanup"} => ~raised

InitializeFailed == "error: Failed to initialize Web Audio Context"

NotInitialized == "error: AudioEngine not properly initialized, cannot play."

\* the last event of a log
Last(l) == IF l = <<>> THEN Ev("") ELSE l[Len(l)]

\* play(s) on the engine as it is now, with the context unavailable, refuses:
\* it returns normally, reports NotInitialized and changes nothing
Refuses(s) ==
    LET r == play(Engine, s, FALSE)
    IN  /\ ~r.raised
        /\ Last(r.log).ev = NotInitialized
        /\ <<r.audioContext, r.isPlaying, r.currentSettings, r.ref, r.conns,
              r.started, r.stopped, r.param, r.gen>>
             = <<FALSE, FALSE, currentSettings, ref, conns, started, stopped,
                 param, gen>>

\* C13: when acquiring the audio context fails, initialize() returns
\* normally and leaves audioContext null; a play(s) while the context stays
\* unavailable returns normally, creates no node, leaves isPlaying false and
\* currentSettings unchanged, reports the 'not properly initialized' error,
\* and leaves the engine so that every further play(s) refuses the same way.
C13_FailedContextRefusesPlay ==
    /\ (call.op = "initialize" /\ call.arg = FALSE) =>
           /\ ~raised /\ ~audioContext
           /\ Last(log).ev = InitializeFailed
           /\ \A s \in PlayInputs : Refuses(s)
    /\ (call.op = "play" /\ ~audioContext) =>
           /\ ~raised /\ ~isPlaying
           /\ currentSettings = before.currentSettings
           /\ Last(log).ev = NotInitialized
           /\ Count("build") = 0 /\ gen = 0
           /\ conns = {} /\ started = {}
           /\ \A r \in RefNames : ref[r] = Null
           /\ \A s \in PlayInputs : Refuses(s)

\* a play refused after an earlier call that left no context
C13_Witness ==
    /\ call.op = "play"
    /\ steps > 1
    /\ ~audioContext /\ ~isPlaying
    /\ Count(InitializeFailed) = 1
    /\ Last(log).ev = NotInitialized

\* the engine with its console output and call-local fields left out
State(e) ==
    <<e.audioContext, e.isPlaying, e.currentSettings, e.ref, e.conns,
      e.started, e.stopped, e.param, e.gen, e.raised>>

\* C15: cleanup() returns normally from every state and always ends in the
\* uninitialized state: audioContext, every persistent gain, every transient
\* node reference and currentSettings are null and isPlaying is false;
\* afterwards initialize() obtains a context again and play(s) ends playing.
C15_CleanupEndsUninitialized ==
    call.op = "cleanup" =>
        /\ ~raised
        /\ ~audioContext /\ ~isPlaying
        /\ currentSettings = NullSettings
        /\ \A r \in RefNames : ref[r] = Null
        /\ State(Engine) = State(Fresh)
        /\ initialize(Engine, TRUE).audioContext
        /\ \A s \in PlayInputs :
               LET r == play(Engine, s, TRUE)
               IN  r.isPlaying /\ ~r.raised /\ r.currentSettings = s

\* a cleanup of an engine that was playing
C15_Witness ==
    /\ call.op = "cleanup"
    /\ before.isPlaying
    /\ ~audioContext /\ ~isPlaying
    /\ Count("warn: Error during node stopping/disconnecting") = 0

\* the graph an engine holds: its nodes by kind, their connections, the
\* values scheduled on their parameters and the sources that run
Graph(e) == <<e.ref, e.conns, e.param, e.started, e.stopped>>

\* C16: whatever operations came before, cleanup() followed by initialize()
\* followed by play(s) builds a graph with the same node kinds, connections
\* and parameter values as the first play(s) of a fresh engine.
C16_CleanupRoundTrip ==
    call.op = "cleanup" =>
        \A s \in PlayInputs :
            LET again == play(initialize(Engine, TRUE), s, TRUE)
                first == play(Fresh, s, TRUE)
            IN  /\ again.isPlaying /\ first.isPlaying
                /\ Graph(again) = Graph(first)

\* a cleanup of an engine that had played and been rebuilt before
C16_Witness ==
    /\ call.op = "cleanup"
    /\ steps = MaxSteps
    /\ before.isPlaying
    /\ before.currentSettings.binauralIntensity > 0
    /\ conns = {} /\ gen = 0

\* C17: exactly one source configuration is alive at a time. While
\* playing, binauralIntensity > 0 in currentSettings implies the left and
\* right oscillators exist and the mono oscillator is null, binauralIntensity
\* = 0 implies the mono oscillator exists and the pair is null; while not
\* playing none of the three source oscillators exists.
C17_OneSourceConfiguration ==
    LET mono  == ref["oscillator"]
        left  == ref["leftOscillator"]
        right == ref["rightOscillator"]
    IN  IF isPlaying
        THEN /\ currentSettings # NullSettings
             /\ IF currentSettings.binauralIntensity > 0
                THEN left # Null /\ right # Null /\ mono = Null
                ELSE mono # Null /\ left = Null /\ right = Null
        ELSE mono = Null /\ left = Null /\ right = Null

\* an update has switched a playing binaural pair over to the mono source
C17_Witness ==
    /\ UpdateWhilePlaying
    /\ before.currentSettings.binauralIntensity > 0
    /\ isPlaying
    /\ currentSettings.binauralIntensity = 0
    /\ ref["oscillator"] # Null
    /\ ref["leftOscillator"] = Null /\ ref["rightOscillator"] = Null

\* play(s) on the engine as it is now tears nothing down: it does not call
\* stop(), stops no source and removes no connection
NoTeardown(s) ==
    LET r == play(Engine, s, TRUE)
    IN  /\ \A i \in 1..Len(r.log) : r.log[i].ev # "stop"
        /\ r.stopped = stopped
        /\ conns \subseteq r.conns
        /\ r.isPlaying

\* C18: play on an engine that is already playing performs exactly one
\* stop() before it builds anything and ends playing with the new settings;
\* play on an engine that is not playing performs no teardown.
C18_PlayStopsOnlyWhenPlaying ==
    /\ (call.op = "play" /\ audioContext) =>
           /\ isPlaying /\ currentSettings = call.arg
           /\ IF before.isPlaying
              THEN OneStopThenRebuild
              ELSE Count("stop") = 0 /\ Count("build") = 1
    /\ ~isPlaying => \A s \in PlayInputs : NoTeardown(s)

\* a play with other settings on an engine that was playing
C18_Witness ==
    /\ call.op = "play"
    /\ before.isPlaying
    /\ call.arg # before.currentSettings
    /\ isPlaying
    /\ currentSettings = call.arg
    /\ OneStopThenRebuild

Deprecated == "warn: setVolume is deprecated"

\* setVolume(v) on the engine as it is now leaves the state, the scheduled
\* parameter values and, after the deprecation notice, the log that
\* updateSettings({volume: v}) leaves
SameAsUpdate(v) ==
    LET a == setVolume(Engine, v)
        b == updateSettings(Engine, [volume |-> v])
    IN  /\ State(a) = State(b)
        /\ a.log = <<Ev(Deprecated)>> \o b.log

\* C19: setVolume(v) while playing has the effect of updateSettings({volume:
\* v}) on the engine state and on the scheduled parameter changes; on an
\* initialized engine that is not playing it sets the master gain to v at
\* once, schedules no ramp, does not call updateSettings and records v in
\* the settings snapshot if there is one; in both cases it emits the
\* deprecation notice.
C19_SetVolumeDelegatesOrSets ==
    /\ isPlaying => \A v \in Volumes : SameAsUpdate(v)
    /\ call.op = "setVolume" =>
           /\ ~raised
           /\ Count(Deprecated) = 1 /\ log[1].ev = Deprecated
           /\ isPlaying = before.isPlaying
           /\ before.isPlaying =>
                  /\ Count("updateSettings") = 1
                  /\ currentSettings =
                         [before.currentSettings EXCEPT !.volume = call.arg]
           /\ (~before.isPlaying /\ audioContext) =>
                  /\ param[P(ref["masterGain"], "gain")] = SetEv(call.arg)
                  /\ Ramps = {}
                  /\ Count("updateSettings") = 0
                  /\ currentSettings =
                         IF before.currentSettings = NullSettings
                         THEN NullSettings
                         ELSE [before.currentSettings EXCEPT !.volume = call.arg]

\* a setVolume with a new value on a playing engine: one ramp of the master
\* gain, as updateSettings schedules it
C19_Witness ==
    /\ call.op = "setVolume"
    /\ before.isPlaying /\ isPlaying
    /\ call.arg # before.currentSettings.volume
    /\ currentSettings.volume = call.arg
    /\ Cardinality(Ramps) = 1
    /\ param[P(ref["masterGain"], "gain")] = RampEv(call.arg)

\* the last call was updateSettings({noiseLevel: x}) on a playing engine
NoiseLevelUpdate ==
    UpdateWhilePlaying /\ DOMAIN call.arg = {"noiseLevel"}

\* C20: while playing with noiseType = none, updateSettings({noiseLevel: x})
\* stores x in currentSettings, schedules no ramp on the noise gain and
\* triggers no rebuild; with noiseType other than none and x different from
\* the current level it schedules a ramp of the noise gain to x and triggers
\* no rebuild.
C20_NoiseLevelRampsOnlyWithNoise ==
    NoiseLevelUpdate =>
        LET x     == call.arg.noiseLevel
            old   == before.currentSettings
            level == P(ref["noiseGain"], "gain")
        IN  /\ ~raised /\ isPlaying
            /\ Count("stop") = 0 /\ Count("build") = 0
            /\ currentSettings = [old EXCEPT !.noiseLevel = x]
            /\ old.noiseType = "none" =>
                   /\ Ramps = {}
                   /\ param[level].kind = "set"
                   /\ ref["noiseNode"] = Null
            /\ (old.noiseType # "none" /\ x # old.noiseLevel) =>
                   /\ \A i \in Ramps : log[i] = RampLog(ref["noiseGain"], "gain", x)
                   /\ Cardinality(Ramps) = 1
                   /\ param[level] = RampEv(x)

\* a new noise level given to an engine that plays without noise: stored,
\* not applied
C20_Witness ==
    /\ NoiseLevelUpdate
    /\ before.currentSettings.noiseType = "none"
    /\ call.arg.noiseLevel # before.currentSettings.noiseLevel
    /\ currentSettings.noiseLevel = call.arg.noiseLevel
    /\ Ramps = {}

\* a new noise level given to an engine that plays white noise: ramped
C20_WitnessNoisy ==
    /\ NoiseLevelUpdate
    /\ before.currentSettings.noiseType = "white"
    /\ call.arg.noiseLevel # before.currentSettings.noiseLevel
    /\ Cardinality(Ramps) = 1

\* the depth setting of each modulation stage and the gains that carry it
Depths == {"aModDepth", "stereoDepth", "fModDepth"}

DepthGains(f) ==
    CASE f = "aModDepth"   -> {"aModGain", "aModDepthGain"}
      [] f = "stereoDepth" -> {"stereoDepthGain"}
      [] f = "fModDepth"   -> {"fModDepthGain"}

\* the gain value the claim gives for gain g at depth d
DepthTarget(g, d) ==
    CASE g = "aModGain"        -> Unit - d \div 2
      [] g = "aModDepthGain"   -> d \div 2
      [] g = "stereoDepthGain" -> d
      [] g = "fModDepthGain"   -> 10 * d

\* the value a first play of snapshot s sets on gain g
PlayedGain(s, g) ==
    LET r == play(Fresh, s, TRUE)
    IN  r.param[P(r.ref[g], "gain")].val

\* the ramps the last call scheduled on the gains of depth f
StageRamps(f) == {i \in Ramps : log[i].node[1] \in DepthGains(f)}

\* the last call was an update of depth f alone, on a playing engine
DepthUpdate(f) == UpdateWhilePlaying /\ DOMAIN call.arg = {f}

\* C21: a depth change between two nonzero values on an active stage
\* triggers no rebuild and ramps each gain of that stage, once, to the value
\* a fresh play with the new depth d sets: amplitude target gain 1 - d/2 and
\* scaling gain d/2, pan scaling gain d, frequency-mod scaling gain 10*d; a
\* depth change on a stage that is not active ramps nothing.
C21_DepthRampsMatchPlay ==
    \A f \in Depths :
        DepthUpdate(f) =>
            LET d   == call.arg[f]
                old == before.currentSettings[f]
            IN  /\ (old > 0 /\ d > 0 /\ d # old) =>
                       /\ ~raised /\ isPlaying
                       /\ Count("stop") = 0 /\ Count("build") = 0
                       /\ currentSettings = [before.currentSettings EXCEPT ![f] = d]
                       /\ Ramps = StageRamps(f)
                       /\ Cardinality(Ramps) = Cardinality(DepthGains(f))
                       /\ \A g \in DepthGains(f) :
                              /\ param[P(ref[g], "gain")] = RampEv(DepthTarget(g, d))
                              /\ RampLog(ref[g], "gain", DepthTarget(g, d))
                                    \in {log[i] : i \in Ramps}
                              /\ PlayedGain(currentSettings, g) = DepthTarget(g, d)
                /\ old = 0 => Ramps = {}

\* the amplitude depth of a playing engine went from one nonzero value to
\* another: two ramps, no rebuild
C21_Witness ==
    /\ DepthUpdate("aModDepth")
    /\ before.currentSettings.aModDepth > 0
    /\ call.arg.aModDepth > 0
    /\ call.arg.aModDepth # before.currentSettings.aModDepth
    /\ Cardinality(Ramps) = 2
    /\ Count("build") = 0

\* the frequencies set on the two oscillators of a binaural source
LeftHz == param[P(ref["leftOscillator"], "frequency")].val

RightHz == param[P(ref["rightOscillator"], "frequency")].val

Binaural == isPlaying /\ currentSettings.binauralIntensity > 0

\* C22: in binaural mode left = carrier - (beat * intensity)/2 and right =
\* carrier + (beat * intensity)/2, so right - left = beat * intensity and the
\* midpoint is the carrier; carrier 440, beat 10 gives 435/445 at intensity
\* 1 and 437.5/442.5 at intensity 0.5.
C22_BinauralSplit ==
    Binaural =>
        LET c == currentSettings.carrierFrequency
            b == currentSettings.beatFrequency
            k == currentSettings.binauralIntensity
        IN  /\ 2 * Unit * (c - LeftHz) = b * k
            /\ 2 * Unit * (RightHz - c) = b * k
            /\ Unit * (RightHz - LeftHz) = b * k
            /\ LeftHz + RightHz = 2 * c
            /\ (c = 44000 /\ b = 1000 /\ k = 100) =>
                   (LeftHz = 43500 /\ RightHz = 44500)
            /\ (c = 44000 /\ b = 1000 /\ k = 50) =>
                   (LeftHz = 43750 /\ RightHz = 44250)

\* the half-intensity example: 437.5 Hz and 442.5 Hz
C22_Witness ==
    /\ Binaural
    /\ currentSettings.carrierFrequency = 44000
    /\ currentSettings.beatFrequency = 1000
    /\ currentSettings.binauralIntensity = 50
    /\ LeftHz = 43750 /\ RightHz = 44250

\* the references to nodes that produce a signal of their own
Sources == {"oscillator", "leftOscillator", "rightOscillator",
            "aModOscillator", "stereoLFO", "fModOscillator", "noiseNode"}

\* C23: in every reachable state every oscillator, LFO and noise source the
\* engine holds a reference to has been started; play never leaves a
\* created source node unstarted.
C23_HeldSourcesStarted ==
    \A r \in Sources : ref[r] # Null => ref[r] \in started

\* a binaural pair with all three LFOs, built by the last play and running
C23_Witness ==
    /\ call.op = "play" /\ isPlaying
    /\ \A r \in Sources \ {"oscillator", "noiseNode"} :
           ref[r] # Null /\ ref[r] \in started \ stopped

\* a mono tone with white noise, built by the last play and running
C23_WitnessNoise ==
    /\ call.op = "play" /\ isPlaying
    /\ \A r \in {"oscillator", "noiseNode"} :
           ref[r] # Null /\ ref[r] \in started \ stopped

\* the gains of the output stage and the wiring initialize() gives them
OutputGains == {"masterGain", "carrierGain", "noiseGain"}

OutputWiring ==
    {Edge(PNode("masterGain"), Destination, 0),
     Edge(PNode("carrierGain"), PNode("masterGain"), 0),
     Edge(PNode("noiseGain"), PNode("masterGain"), 0)}

\* C24: the master, carrier-mix and noise gains are created once by
\* initialize and destroyed only by cleanup: from an initialized engine,
\* play, stop, updateSettings and setVolume leave them the same nodes and
\* never remove master -> destination, carrier mix -> master, noise -> master.
C24_OutputStagePersists ==
    /\ IF audioContext
       THEN /\ \A g \in OutputGains : ref[g] = PNode(g)
            /\ OutputWiring \subseteq conns
       ELSE \A g \in OutputGains : ref[g] = Null
    /\ (before.audioContext /\ call.op # "cleanup") =>
           /\ audioContext
           /\ Count("context") = 0
    /\ call.op \in {"stop", "updateSettings", "setVolume"} => Count("context") = 0

\* a playing engine with amplitude and pan stages has been stopped: the
\* output stage is as initialize() left it
C24_Witness ==
    /\ call.op = "stop"
    /\ before.isPlaying
    /\ before.currentSettings.aModDepth > 0
    /\ before.currentSettings.stereoDepth > 0
    /\ steps = MaxSteps
    /\ Count("context") = 0
    /\ \A g \in OutputGains : ref[g] = PNode(g)
    /\ OutputWiring \subseteq conns

\* C25: the settings snapshot is never mutated in place: every operation
\* that changes a recorded setting installs a new snapshot object as
\* currentSettings and writes no field of the snapshot object it replaces.
C25_SnapshotNeverWritten ==
    /\ Count("write") = 0
    /\ (currentSettings # before.currentSettings /\ currentSettings # NullSettings)
          => Count("snapshot") >= 1

\* C26: initialize() is idempotent: on an engine that is already
\* initialized, playing or not, it acquires no new context, creates no node
\* and leaves every engine field and every connection unchanged.
C26_InitializeIdempotent ==
    /\ audioContext => \A ok \in BOOLEAN : initialize(Engine, ok) = Engine
    /\ (call.op = "initialize" /\ before.audioContext) =>
           /\ log = <<>> /\ ~raised
           /\ audioContext
           /\ isPlaying = before.isPlaying
           /\ currentSettings = before.currentSettings

\* initialize() called on an engine that plays
C26_Witness ==
    /\ call.op = "initialize"
    /\ before.audioContext /\ before.isPlaying
    /\ isPlaying
    /\ log = <<>>
    /\ initialize(Engine, TRUE) = Engine

\* C27: updateSettings(delta) on an engine that is not playing, whether
\* uninitialized, initialized but never played, or stopped, is a complete
\* no-op: currentSettings, every node reference, every gain value and every
\* connection are unchanged and no ramp is scheduled.
C27_UpdateWhileIdleIsNoOp ==
    /\ ~isPlaying =>
           \A d \in Deltas :
               LET r == updateSettings(Engine, d)
               IN  State(r) = State(Engine) /\ r.log = <<Ev("updateSettings")>>
    /\ (call.op = "updateSettings" /\ ~before.isPlaying) =>
           /\ ~raised /\ ~isPlaying
           /\ currentSettings = before.currentSettings
           /\ audioContext = before.audioContext
           /\ log = <<Ev("updateSettings")>>

\* an update that would change a stored field, given to a stopped engine
C27_Witness ==
    /\ call.op = "updateSettings"
    /\ ~before.isPlaying /\ before.audioContext
    /\ before.currentSettings # NullSettings
    /\ \E f \in DOMAIN call.arg : call.arg[f] # before.currentSettings[f]
    /\ currentSettings = before.currentSettings
    /\ log = <<Ev("updateSettings")>>

\* C28: stop() on an engine that is not playing is a no-op: it stops and
\* disconnects nothing and leaves every field, currentSettings and the
\* persistent gains included, unchanged.
C28_StopWhileIdleIsNoOp ==
    /\ ~isPlaying =>
           LET r == stop(Engine)
           IN  State(r) = State(Engine) /\ r.log = <<Ev("stop")>>
    /\ (call.op = "stop" /\ ~before.isPlaying) =>
           /\ ~raised /\ ~isPlaying
           /\ currentSettings = before.currentSettings
           /\ audioContext = before.audioContext
           /\ log = <<Ev("stop")>>

\* a second stop() on an engine that an earlier stop() left with its
\* snapshot and its output stage
C28_Witness ==
    /\ call.op = "stop"
    /\ ~before.isPlaying /\ before.audioContext
    /\ before.currentSettings # NullSettings
    /\ currentSettings = before.currentSettings
    /\ OutputWiring \subseteq conns
    /\ steps = MaxSteps

\* the carrier oscillators the engine holds
Carriers ==
    {ref[r] : r \in {"oscillator", "leftOscillator", "rightOscillator"}} \ {Null}

\* the channel merger of the graph that the last play built
Merger == TNode("merger", gen)

\* a signal from node a reaches node b
Reaches(a, b) == b \in Downstream(a, Signal)

\* C29: after play(s), for every source mode and every combination of
\* amplitude, pan and frequency-mod stages, every carrier oscillator has a
\* directed signal path through the channel merger, the carrier-mix gain and
\* the master gain to the output destination; the merger stays connected to
\* the carrier-mix gain, also when only the pan stage is enabled.
C29_CarrierReachesOutput ==
    (call.op = "play" /\ isPlaying) =>
        /\ Carriers # {}
        /\ \A o \in Carriers : Reaches(o, Merger) /\ Reaches(o, Destination)
        /\ Edge(Merger, ref["carrierGain"], 0) \in conns
        /\ Edge(ref["carrierGain"], ref["masterGain"], 0) \in conns
        /\ Edge(ref["masterGain"], Destination, 0) \in conns

\* the input channels of the merger that a signal from node o arrives at
MergerInputs(o) ==
    {c.input : c \in {d \in Signal : /\ d.to = Merger
                                     /\ d.from \in {o} \cup Downstream(o, Signal)}}

\* C30: in binaural mode the two tones stay separated per ear whatever
\* modulation stages are enabled: the left oscillator's signal reaches only
\* input channel 0 of the merger and the right oscillator's only input
\* channel 1, so no node sums both and feeds both merger inputs.
C30_TonesStaySeparated ==
    (call.op = "play" /\ Binaural) =>
        /\ MergerInputs(ref["leftOscillator"]) = {0}
        /\ MergerInputs(ref["rightOscillator"]) = {1}

\* a started noise source connected to the noise gain exists
NoiseRuns ==
    /\ ref["noiseNode"] # Null
    /\ ref["noiseNode"] \in started \ stopped
    /\ Edge(ref["noiseNode"], ref["noiseGain"], 0) \in conns

\* the settings ask for audible noise
NoiseWanted == currentSettings.noiseType # "none" /\ currentSettings.noiseLevel > 0

\* C31: while the engine is playing, a started noise source connected to the
\* noise gain exists if and only if currentSettings has noiseType other than
\* none and noiseLevel > 0; raising noiseLevel from 0 by updateSettings while
\* a noise colour is selected yields a running noise source.
C31_NoiseSourceIffWanted ==
    isPlaying => (NoiseRuns <=> NoiseWanted)

\* the sources that were started and have not been stopped
Running == started \ stopped

\* C32: in every reachable state, also after a node creation or connection
\* step failed in the middle of play, isPlaying = false implies that all
\* transient node references are null and no source the engine started is
\* still running, so a later stop() is never a no-op while sources sound.
C32_IdleMeansSilent ==
    ~isPlaying =>
        /\ \A r \in TransientRefs : ref[r] = Null
        /\ Running = {}

\* the sources the engine holds a reference to
Held == {ref[r] : r \in Sources} \ {Null}

\* the last call tore a playing graph down and built another
Rebuilt ==
    /\ call.op \in {"play", "updateSettings"}
    /\ before.isPlaying
    /\ Count("build") = 1

\* C33: absent node failures, after any sequence of play, stop,
\* updateSettings, setVolume and cleanup the sources started and not yet
\* stopped are exactly the sources the engine holds references to; a rebuild
\* stops every source of the previous generation before it starts one of the
\* new generation, and no running source is left unreferenced.
C33_RunningIsHeld ==
    /\ Running = Held
    /\ \A n \in Running : n[2] = gen
    /\ Rebuilt => OneStopThenRebuild

\* an update rebuilt a playing graph: the old sources are stopped, the new
\* ones run and are held
C33_Witness ==
    /\ Rebuilt
    /\ call.op = "updateSettings"
    /\ gen > 1
    /\ \E n \in stopped : n[2] < gen
    /\ Running # {}
    /\ Running = Held

\* the connections among the nodes of the current build and of initialize()
Current2(cs) == {c \in cs : c.from[2] \in {0, gen} /\ c.to[2] \in {0, gen}}

\* a node of a first build, taken as the node of the same kind of this build
Regen(n) == IF n[2] > 0 THEN <<n[1], gen>> ELSE n

RegenEdge(c) == [c EXCEPT !.from = Regen(c.from), !.to = Regen(c.to)]

\* the connections a first play of snapshot s makes, in the nodes of this build
BuiltFor(s) == {RegenEdge(c) : c \in play(Fresh, s, TRUE).conns}

\* LFO -> scaling gain -> frequency parameter of every carrier oscillator
FModEdges ==
    {Edge(ref["fModOscillator"], ref["fModDepthGain"], 0)}
      \cup {PEdge(ref["fModDepthGain"], o, "frequency") : o \in Carriers}

\* C34: play with fModDepth > 0 adds only the connections LFO -> scaling
\* gain -> frequency parameter of every live source oscillator (both in
\* binaural mode, the one in mono mode) and leaves the other connections
\* identical to those built for the same settings with fModDepth = 0.
C34_FModInParallel ==
    (call.op = "play" /\ isPlaying /\ currentSettings.fModDepth > 0) =>
        LET plain == BuiltFor([currentSettings EXCEPT !.fModDepth = 0])
        IN  /\ FModEdges \subseteq conns
            /\ FModEdges \cap plain = {}
            /\ Current2(conns) = plain \cup FModEdges
            /\ Cardinality(FModEdges) = 1 + Cardinality(Carriers)

\* a binaural pair with amplitude and frequency modulation, built on an
\* engine that had played before
C34_Witness ==
    /\ call.op = "play" /\ isPlaying
    /\ gen > 1
    /\ currentSettings.fModDepth > 0
    /\ currentSettings.binauralIntensity > 0
    /\ currentSettings.aModDepth > 0
    /\ Cardinality(FModEdges) = 3
    /\ FModEdges \subseteq conns

\* the nodes that hand the source signal to the chain of series stages
SourceOut ==
    IF currentSettings.binauralIntensity > 0
    THEN {ref["leftGain"], ref["rightGain"]}
    ELSE {ref["oscillator"]}

\* the nodes that node n sends its signal to
SigOut(n) == {c.to : c \in {d \in Signal : d.from = n}}

\* the signal runs from the source through the nodes of chain, in this
\* order and nowhere else, into the merger
Chained(chain) ==
    /\ \A s \in SourceOut : SigOut(s) = {chain[1]}
    /\ \A i \in 1..Len(chain) :
           SigOut(chain[i]) = {IF i < Len(chain) THEN chain[i + 1] ELSE Merger}

\* C35: each enabled series stage becomes the tail the next stage attaches
\* to: with aModDepth > 0 and stereoDepth > 0 the signal path after play is
\* source -> amplitude gain -> panner -> merger, the amplitude gain's only
\* signal output being the panner; with only one of the two enabled that
\* stage sits directly between the source and the merger.
C35_SeriesStagesChained ==
    (call.op = "play" /\ isPlaying) =>
        LET am  == currentSettings.aModDepth > 0
            pan == currentSettings.stereoDepth > 0
        IN  /\ (am /\ pan) => Chained(<<ref["aModGain"], ref["stereoPanner"]>>)
            /\ (am /\ ~pan) => Chained(<<ref["aModGain"]>>)
            /\ (~am /\ pan) => Chained(<<ref["stereoPanner"]>>)

\* C36: the carrier-mix gain, the noise gain and the master gain are the
\* only nodes that survive a stop or a structural update: after stop the
\* graph consists of exactly those three gains wired to the destination, and
\* after a rebuild no connection of the previous build is left.
C36_OnlyOutputStageSurvives ==
    /\ (call.op = "stop" /\ before.isPlaying) => conns = OutputWiring
    /\ Rebuilt => conns = Current2(conns)

\* the resting value of the modulated gain and the scale of the LFO
Resting == param[P(ref["aModGain"], "gain")].val

Swing == param[P(ref["aModDepthGain"], "gain")].val

\* the LFO, scaled by the depth gain, drives the gain parameter
LFODrivesGain ==
    /\ Edge(ref["aModOscillator"], ref["aModDepthGain"], 0) \in conns
    /\ PEdge(ref["aModDepthGain"], ref["aModGain"], "gain") \in conns

\* C37: for every depth d in [0, 1] the amplitude stage built by play sets
\* the modulated gain's resting value to 1 - d/2 and the LFO scaling gain to
\* d/2, so with an LFO swing of -1..1 the effective gain stays within
\* [1 - d, 1]: never negative and never above unity.
C37_AModGainRange ==
    (call.op = "play" /\ isPlaying) =>
        LET d == currentSettings.aModDepth
        IN  IF d > 0
            THEN /\ LFODrivesGain
                 /\ 2 * Resting = 2 * Unit - d
                 /\ 2 * Swing = d
                 /\ Resting - Swing = Unit - d
                 /\ Resting + Swing = Unit
                 /\ Resting - Swing >= 0
            ELSE ref["aModGain"] = Null /\ ref["aModDepthGain"] = Null

\* full depth: the gain rests at one half and swings between 0 and 1
C37_Witness ==
    /\ call.op = "play" /\ isPlaying
    /\ currentSettings.aModDepth = Unit
    /\ LFODrivesGain
    /\ Resting - Swing = 0
    /\ Resting + Swing = Unit

\* the value most recently set or scheduled on the gain of node reference r
Scheduled(r) == param[P(ref[r], "gain")].val

\* C38: whenever the engine is initialized and a settings snapshot exists,
\* the value most recently set or scheduled on the master gain equals
\* currentSettings.volume and the value most recently set or scheduled on
\* the carrier-mix gain equals currentSettings.mixLevel.
C38_GainsFollowSnapshot ==
    (audioContext /\ currentSettings # NullSettings) =>
        /\ Scheduled("masterGain") = currentSettings.volume
        /\ Scheduled("carrierGain") = currentSettings.mixLevel

\* a volume given to a stopped engine: set on the gain and recorded
C38_Witness ==
    /\ call.op = "setVolume"
    /\ ~before.isPlaying /\ audioContext
    /\ before.currentSettings # NullSettings
    /\ call.arg # before.currentSettings.volume
    /\ Scheduled("masterGain") = call.arg
    /\ currentSettings.volume = call.arg

\* a volume and a mix level ramped on a playing engine
C38_WitnessRamped ==
    /\ UpdateWhilePlaying /\ isPlaying
    /\ Count("build") = 0
    /\ currentSettings.mixLevel # before.currentSettings.mixLevel
    /\ currentSettings.volume # before.currentSettings.volume
    /\ param[P(ref["carrierGain"], "gain")] = RampEv(currentSettings.mixLevel)
    /\ param[P(ref["masterGain"], "gain")] = RampEv(currentSettings.volume)

\* C39: isPlaying = true implies that the audio context, the master,
\* carrier-mix and noise gains and currentSettings are all non-null; hence
\* the stop() inside cleanup and inside play never returns early while the
\* engine is marked playing.
C39_PlayingMeansInitialized ==
    /\ isPlaying =>
           /\ audioContext
           /\ \A g \in OutputGains : ref[g] # Null
           /\ currentSettings # NullSettings
    /\ (call.op = "cleanup" /\ before.isPlaying) => ~isPlaying
    /\ (call.op = "play" /\ before.isPlaying /\ ~raised) =>
           /\ Count("stop") = 1
           /\ \A n \in started : n[2] < gen => n \in stopped

\* a cleanup of a playing engine: its stop() went through
C39_Witness ==
    /\ call.op = "cleanup"
    /\ before.isPlaying /\ before.audioContext
    /\ ~isPlaying
    /\ Count("stop") = 1
    /\ steps = MaxSteps

\* the delta of the last updateSettings names only values the snapshot
\* already had
DeltaRepeats ==
    \A f \in DOMAIN call.arg : call.arg[f] = before.currentSettings[f]

\* C40: updateSettings is idempotent on a playing engine: for every delta,
\* applying the same delta a second time immediately after the first
\* triggers no rebuild, schedules no ramp and leaves currentSettings and the
\* graph unchanged.
C40_UpdateIdempotent ==
    /\ (UpdateWhilePlaying /\ isPlaying /\ ~raised) =>
           LET again == updateSettings(Engine, call.arg)
           IN  /\ State(again) = State(Engine)
               /\ \A i \in 1..Len(again.log) :
                      again.log[i].ev \notin {"ramp", "build", "stop", "context"}
    /\ (UpdateWhilePlaying /\ DeltaRepeats) =>
           /\ isPlaying
           /\ Ramps = {}
           /\ Count("build") = 0 /\ Count("stop") = 0
           /\ currentSettings = before.currentSettings

\* the carrier moved by a first update, the same update given once more
C40_Witness ==
    /\ UpdateWhilePlaying /\ DeltaRepeats
    /\ steps = MaxSteps
    /\ DOMAIN call.arg = {"carrierFrequency"}
    /\ call.arg.carrierFrequency = 22000
    /\ isPlaying
    /\ Count("build") = 0
    /\ Ramps = {}

====
